---------------------------- MODULE Spec2Model ----------------------------
(***************************************************************************)
(* A model of cms/plugin_pool.py: the PluginPool registry, its lazy        *)
(* discovery, the table-name patcher set_plugin_meta, the filter/sort      *)
(* pipeline get_all_plugins, get_text_enabled_plugins, get_plugin and      *)
(* get_patterns with its locale scoping.                                   *)
(*                                                                         *)
(* Text that the code compares, sorts or splits (display names, module     *)
(* names, table names, app labels) is a sequence of one-character strings. *)
(* Class names, which the code only uses as dictionary keys, are strings.  *)
(***************************************************************************)
EXTENDS Naturals, Sequences, FiniteSets

VARIABLES
    plugins,      \* self.plugins: insertion-ordered dict, a sequence of [key, cls]
    discovered,   \* self.discovered
    value,        \* the class attribute plugin.value, per class
    db_table,     \* model._meta.db_table, per model and per M2M through table
    patched,      \* the models carrying the attribute `patched`
    warned,       \* the models a DeprecationWarning was issued for
    versioned,    \* the models registered with reversion
    active,       \* the translation activated in this thread
    db,           \* the tables that exist in the database
    scans,        \* history: how often load('cms_plugins') has run
    first_table,  \* history: db_table of a model after the first set_plugin_meta on it
    call          \* the last call on the pool: operation, arguments, outcome

vars == <<plugins, discovered, value, db_table, patched, warned, versioned, active,
          db, scans, first_table, call>>

None == "None"

-----------------------------------------------------------------------------
(* Text *)

Alphabet == <<"_", "a", "b", "c", "d", "e", "f", "g", "h", "i", "j", "k", "l", "m",
              "n", "o", "p", "q", "r", "s", "t", "u", "v", "w", "x", "y", "z">>

\* The code point order of the characters used.
Ord(c) == CHOOSE i \in 1..Len(Alphabet) : Alphabet[i] = c

\* Python's u < v on text: lexicographic by code point, a proper prefix is smaller.
StrLess(u, v) ==
    \E i \in 1..(Len(v)) :
        /\ \A j \in 1..(i - 1) : j <= Len(u) /\ u[j] = v[j]
        /\ \/ i = Len(u) + 1
           \/ i <= Len(u) /\ Ord(u[i]) < Ord(v[i])

StrLeq(u, v) == u = v \/ StrLess(u, v)

\* The least index at which `sub` occurs in s, 0 when it does not (str.find + 1).
Find(s, sub) ==
    LET hits == {i \in 1..(Len(s) - Len(sub) + 1) : SubSeq(s, i, i + Len(sub) - 1) = sub}
    IN  IF hits = {} THEN 0 ELSE CHOOSE i \in hits : \A j \in hits : i <= j

\* `sub in s`
Contains(s, sub) == Find(s, sub) # 0

\* s.split(sub, 1)[1], for s that contains sub: what follows the first occurrence.
SplitRest(s, sub) == SubSeq(s, Find(s, sub) + Len(sub), Len(s))


-----------------------------------------------------------------------------
(* The classes and models of the installation *)

\* String literals of the code, as text.
CmsPluginPrefix == <<"c", "m", "s", "p", "l", "u", "g", "i", "n", "_">>
Underscore == <<"_">>

\* The classes that may be handed to the pool.  `base` is
\* issubclass(cls, CMSPluginBase); `name` and `module` are lazily translated
\* message ids; `init_fails` says that instantiating the class raises.
ClassDef ==
    [K1 |-> [cname |-> "TextPlugin", base |-> TRUE, name |-> <<"b">>, module |-> <<"g">>,
             require_parent |-> FALSE, page_only |-> FALSE, text_enabled |-> TRUE,
             model |-> "M1", init_fails |-> FALSE],
     K2 |-> [cname |-> "LinkPlugin", base |-> TRUE, name |-> <<"a">>, module |-> <<"g">>,
             require_parent |-> FALSE, page_only |-> TRUE, text_enabled |-> TRUE,
             model |-> "M2", init_fails |-> FALSE],
     K3 |-> [cname |-> "ColumnPlugin", base |-> TRUE, name |-> <<"c">>, module |-> <<"d">>,
             require_parent |-> TRUE, page_only |-> FALSE, text_enabled |-> FALSE,
             model |-> "M2", init_fails |-> TRUE],
     K4 |-> [cname |-> "TextPlugin", base |-> TRUE, name |-> <<"a">>, module |-> <<"h">>,
             require_parent |-> FALSE, page_only |-> FALSE, text_enabled |-> FALSE,
             model |-> "M1", init_fails |-> FALSE],
     K5 |-> [cname |-> "LinkPlugin", base |-> FALSE, name |-> <<"z">>, module |-> <<"z">>,
             require_parent |-> FALSE, page_only |-> FALSE, text_enabled |-> FALSE,
             model |-> "M1", init_fails |-> FALSE]]

Classes == DOMAIN ClassDef

ClassNames == {ClassDef[k].cname : k \in Classes} \cup {"GhostPlugin"}

\* get_subclasses(CMSPlugin), in its order.  `m2m` lists the through tables of
\* the model's ManyToManyField attributes.
Models == <<"M0", "M1", "M2">>

ModelDef ==
    [M0 |-> [app_label |-> <<"t">>, abstract |-> TRUE, m2m |-> <<>>],
     M1 |-> [app_label |-> <<"t">>, abstract |-> FALSE, m2m |-> <<>>],
     M2 |-> [app_label |-> <<"u">>, abstract |-> FALSE, m2m |-> <<"T2">>]]

\* The table names the models are declared with.
DeclaredTable ==
    [M0 |-> <<"t", "_", "o">>,
     M1 |-> <<"t", "_", "t", "_", "x">>,
     M2 |-> <<"u", "_", "y">>,
     T2 |-> <<"u", "_", "y", "_", "z">>]

Tables == DOMAIN DeclaredTable

\* The databases considered: one with every table under its declared name,
\* one that still has every table under its cmsplugin_ name, one that has the
\* model tables under the declared names and the through table under its
\* cmsplugin_ name, and one without tables.
DbDeclared == {DeclaredTable[t] : t \in {"M1", "M2", "T2"}}
DbLegacy == {CmsPluginPrefix \o <<"t", "_", "x">>, CmsPluginPrefix \o <<"y">>,
             CmsPluginPrefix \o <<"y", "_", "z">>}
DbMixed == {DeclaredTable["M1"], DeclaredTable["M2"], CmsPluginPrefix \o <<"y", "_", "z">>}
Databases == {DbDeclared, DbLegacy, DbMixed, {}}

\* Translations: settings.LANGUAGE_CODE, the languages, and the state after
\* deactivate_all().
LANGUAGE_CODE == "en"
Languages == {"en", "fr"}
Deactivated == "deactivated"

\* The French catalogue; every other language leaves the message id as it is.
Catalogue(msgid) ==
    CASE msgid = <<"a">> -> <<"c", "a">>
      [] msgid = <<"b">> -> <<"a", "b">>
      [] msgid = <<"g">> -> <<"z">>
      [] OTHER -> msgid

\* force_unicode of a lazily translated text under the activated translation.
force_unicode(msgid, act) == IF act = "fr" THEN Catalogue(msgid) ELSE msgid

\* django.utils.translation.get_language(): the default language when no
\* translation is activated.
get_language(act) == IF act = Deactivated THEN LANGUAGE_CODE ELSE act

-----------------------------------------------------------------------------
(* The insertion-ordered dictionary self.plugins *)

DictKeys(d) == {d[i].key : i \in 1..Len(d)}

DictIndex(d, k) == CHOOSE i \in 1..Len(d) : d[i].key = k

DictGet(d, k) == d[DictIndex(d, k)].cls

\* d[k] = c
DictSet(d, k, c) ==
    IF k \in DictKeys(d)
    THEN [d EXCEPT ![DictIndex(d, k)] = [key |-> k, cls |-> c]]
    ELSE Append(d, [key |-> k, cls |-> c])

\* del d[k]
DictDel(d, k) ==
    LET i == DictIndex(d, k)
    IN  SubSeq(d, 1, i - 1) \o SubSeq(d, i + 1, Len(d))

\* list(d.values())
DictValues(d) == [i \in 1..Len(d) |-> d[i].cls]

-----------------------------------------------------------------------------
(* The pool's operations, as functions of a state record.  The field exc is  *)
(* "none" or the name of the exception the operation ended with.             *)

NoExc == "none"

Pool ==
    [plugins |-> plugins, discovered |-> discovered, value |-> value,
     db_table |-> db_table, patched |-> patched, warned |-> warned,
     versioned |-> versioned,
     scans |-> scans, first_table |-> first_table, exc |-> NoExc]

\* settings.INSTALLED_APPS
INSTALLED_APPS == {"cms", "reversion"}

\* cms.utils.helpers.reversion_register(model): registers the model with
\* reversion, which raises RegistrationError for a model it already has.
reversion_register(registered, model) ==
    [registered |-> registered \cup {model},
     exc |-> IF model \in registered THEN "RegistrationError" ELSE NoExc]

\* Lines 52-60 of register_plugin: the model goes to reversion when that is
\* installed, and a RegistrationError is passed over.
Versioned(st, plugin) ==
    IF "reversion" \in INSTALLED_APPS
    THEN [st EXCEPT !.versioned = reversion_register(st.versioned,
                                                     ClassDef[plugin].model).registered]
    ELSE st

\* register_plugin without the test for a registered name: the entry of the
\* name is overwritten.
register_plugin_overwriting(st, plugin) ==
    LET plugin_name == ClassDef[plugin].cname
    IN  IF ~ClassDef[plugin].base
        THEN [st EXCEPT !.exc = "ImproperlyConfigured"]
        ELSE Versioned([st EXCEPT !.value[plugin] = plugin_name,
                                  !.plugins = DictSet(st.plugins, plugin_name, plugin)],
                       plugin)

\* register_plugin stamping the value attribute before it tests the class.
register_plugin_stamping_first(st, plugin) ==
    LET plugin_name == ClassDef[plugin].cname
        stamped == [st EXCEPT !.value[plugin] = plugin_name]
    IN  IF ~ClassDef[plugin].base
        THEN [stamped EXCEPT !.exc = "ImproperlyConfigured"]
        ELSE IF plugin_name \in DictKeys(st.plugins)
        THEN [stamped EXCEPT !.exc = "PluginAlreadyRegistered"]
        ELSE Versioned([stamped EXCEPT !.plugins = DictSet(st.plugins, plugin_name, plugin)],
                       plugin)

\* register_plugin(plugin)
register_plugin(st, plugin) ==
    LET plugin_name == ClassDef[plugin].cname
    IN  IF ~ClassDef[plugin].base
        THEN [st EXCEPT !.exc = "ImproperlyConfigured"]
        ELSE IF plugin_name \in DictKeys(st.plugins)
        THEN [st EXCEPT !.exc = "PluginAlreadyRegistered"]
        ELSE Versioned([st EXCEPT !.value[plugin] = plugin_name,
                                  !.plugins = DictSet(st.plugins, plugin_name, plugin)],
                       plugin)

\* unregister_plugin that passes over a name that is not registered.
unregister_plugin_lenient(st, plugin) ==
    LET plugin_name == ClassDef[plugin].cname
    IN  IF plugin_name \notin DictKeys(st.plugins)
        THEN st
        ELSE [st EXCEPT !.plugins = DictDel(st.plugins, plugin_name)]

\* unregister_plugin(plugin)
unregister_plugin(st, plugin) ==
    LET plugin_name == ClassDef[plugin].cname
    IN  IF plugin_name \notin DictKeys(st.plugins)
        THEN [st EXCEPT !.exc = "PluginNotRegistered"]
        ELSE [st EXCEPT !.plugins = DictDel(st.plugins, plugin_name)]

\* What a cms_plugins module may do with the pool while it is imported, other
\* than register a class: call a method that starts with discover_plugins().
Reenter == "reenter"

\* load('cms_plugins') imports the cms_plugins module of every installed
\* application; importing runs `mods` in order: the classes the modules
\* register with the pool, and their re-entrant calls.  An exception of a
\* registration ends the import and leaves load.
RECURSIVE load(_, _), discover_plugins(_, _)
load(st, mods) ==
    IF mods = <<>> \/ st.exc # NoExc
    THEN st
    ELSE IF Head(mods) = Reenter
    THEN load(discover_plugins(st, mods), Tail(mods))
    ELSE load(register_plugin(st, Head(mods)), Tail(mods))

\* discover_plugins that takes the flag back when the scan raises.
discover_plugins_retrying(st, mods) ==
    IF st.discovered
    THEN st
    ELSE LET r == load([st EXCEPT !.discovered = TRUE, !.scans = st.scans + 1], mods)
         IN  IF r.exc # NoExc THEN [r EXCEPT !.discovered = FALSE] ELSE r

\* discover_plugins()
discover_plugins(st, mods) ==
    IF st.discovered
    THEN st
    ELSE load([st EXCEPT !.discovered = TRUE, !.scans = st.scans + 1], mods)

\* The cms_plugins modules of the installations considered.
Installations == {<<"K1", Reenter, "K2">>, <<"K3">>}

\* model.objects.exists() and the M2M count query raise DatabaseError when the
\* table they read does not exist.
QueryFails(table_name) == table_name \notin db

\* 'cmsplugin_%s' % db_table.split(splitter, 1)[1] when splitter is in db_table
CmsPluginName(table_name, splitter) == CmsPluginPrefix \o SplitRest(table_name, splitter)

\* The table name set_plugin_meta gives a model whose query failed (lines 81-87).
RenamedModelTable(old_db_name, splitter) ==
    IF Contains(old_db_name, splitter)
    THEN CmsPluginName(old_db_name, splitter)
    ELSE old_db_name

\* The loop over the model's ManyToManyField attributes (lines 90-101).
RECURSIVE patch_m2m(_, _, _)
patch_m2m(st, model, through) ==
    IF through = <<>>
    THEN st
    ELSE LET t == Head(through)
             splitter == ModelDef[model].app_label \o Underscore
             old_db_name == st.db_table[t]
             st1 == IF QueryFails(old_db_name) /\ Contains(old_db_name, splitter)
                    THEN [st EXCEPT !.db_table[t] = CmsPluginName(old_db_name, splitter),
                                    !.warned = st.warned \cup {model}]
                    ELSE st
         IN  patch_m2m(st1, model, Tail(through))

\* The history variable first_table: the table name a call of set_plugin_meta
\* left the model with, recorded at the first call.
Recorded(st, model) ==
    IF st.first_table[model] = <<>>
    THEN [st EXCEPT !.first_table[model] = st.db_table[model]]
    ELSE st

\* set_plugin_meta(model)
set_plugin_meta(st, model) ==
    IF ModelDef[model].abstract \/ model \in st.patched
    THEN st
    ELSE LET splitter == ModelDef[model].app_label \o Underscore
             old_db_name == st.db_table[model]
             table_name == RenamedModelTable(old_db_name, splitter)
             renamed == [st EXCEPT !.db_table[model] = table_name,
                                   !.warned = st.warned \cup {model}]
         IN  IF ~QueryFails(old_db_name)
             THEN Recorded([patch_m2m(st, model, ModelDef[model].m2m)
                               EXCEPT !.patched = @ \cup {model}], model)
             ELSE IF QueryFails(table_name)
             THEN Recorded([renamed EXCEPT !.exc = "DatabaseError"], model)
             ELSE Recorded([patch_m2m(renamed, model, ModelDef[model].m2m)
                               EXCEPT !.patched = @ \cup {model}], model)

\* for model in subs: self.set_plugin_meta(model)
RECURSIVE patch_models(_, _)
patch_models(st, subs) ==
    IF subs = <<>> \/ st.exc # NoExc
    THEN st
    ELSE patch_models(set_plugin_meta(st, Head(subs)), Tail(subs))

-----------------------------------------------------------------------------
(* Placeholder configuration *)

\* settings.CMS_PLACEHOLDER_CONF: per key (a placeholder, or a template and a
\* placeholder) the allow-lists of the two setting keys; <<>> where none is set.
CMS_PLACEHOLDER_CONF ==
    [key \in {<<None, "ph">>, <<"tpl", "ph">>, <<None, "odd">>} |->
        CASE key = <<None, "ph">> ->
                 [plugins |-> <<"TextPlugin", "ColumnPlugin">>,
                  text_only_plugins |-> <<"LinkPlugin", "TextPlugin">>]
          [] key = <<"tpl", "ph">> ->
                 [plugins |-> <<"LinkPlugin", "TextPlugin">>, text_only_plugins |-> <<>>]
          [] key = <<None, "odd">> ->
                 [plugins |-> <<"GhostPlugin">>, text_only_plugins |-> <<>>]]

\* The first key of `keys` that configures a non-empty value for `setting`.
RECURSIVE ConfLookup(_, _)
ConfLookup(setting, keys) ==
    IF keys = <<>>
    THEN [found |-> FALSE, list |-> <<>>]
    ELSE IF Head(keys) \in DOMAIN CMS_PLACEHOLDER_CONF
            /\ CMS_PLACEHOLDER_CONF[Head(keys)][setting] # <<>>
    THEN [found |-> TRUE, list |-> CMS_PLACEHOLDER_CONF[Head(keys)][setting]]
    ELSE ConfLookup(setting, Tail(keys))

\* cms.utils.placeholder.get_placeholder_conf(setting, placeholder, template):
\* the value configured for the template's placeholder, else for the
\* placeholder, else None (found = FALSE).
get_placeholder_conf(setting, placeholder, template) ==
    IF placeholder = None
    THEN [found |-> FALSE, list |-> <<>>]
    ELSE ConfLookup(setting,
                    (IF template # None THEN <<(<<template, placeholder>>)>> ELSE <<>>)
                        \o <<(<<None, placeholder>>)>>)

\* page.get_template()
get_template(page) == IF page = "pg" THEN "tpl" ELSE None

-----------------------------------------------------------------------------
(* Sorting *)

\* x put into the sorted sequence of [item, key] records behind every element
\* whose key is not greater: one step of a stable sort.
Insert(sorted, x) ==
    LET later == {i \in 1..Len(sorted) : StrLess(x.key, sorted[i].key)}
        at == IF later = {} THEN Len(sorted) + 1
              ELSE CHOOSE i \in later : \A j \in later : i <= j
    IN  SubSeq(sorted, 1, at - 1) \o <<x>> \o SubSeq(sorted, at, Len(sorted))

RECURSIVE SortPairs(_, _)
SortPairs(todo, sorted) ==
    IF todo = <<>> THEN sorted ELSE SortPairs(Tail(todo), Insert(sorted, Head(todo)))

\* list.sort(key=...) / sorted(list, key=...): stable, ascending; `keys[i]` is
\* the key of items[i].
SortedByKey(items, keys) ==
    LET pairs == [i \in 1..Len(items) |-> [item |-> items[i], key |-> keys[i]]]
        done == SortPairs(pairs, <<>>)
    IN  [i \in 1..Len(done) |-> done[i].item]

\* get_all_plugins without the sort by name.
SortByName_skipped(list, act) == list

\* plugins.sort(key=lambda obj: force_unicode(obj.name))
SortByName(list, act) ==
    SortedByKey(list, [i \in 1..Len(list) |-> force_unicode(ClassDef[list[i]].name, act)])

\* sorted(plugins, key=lambda obj: force_unicode(obj.module))
SortByModule(list, act) ==
    SortedByKey(list, [i \in 1..Len(list) |-> force_unicode(ClassDef[list[i]].module, act)])

-----------------------------------------------------------------------------
(* The filter/sort pipeline *)

InList(x, list) == \E i \in 1..Len(list) : list[i] = x

\* The value of include_plugin at line 133 for one plugin.
include_plugin(plugin, placeholder, allowed_plugins, setting_key, include_page_only) ==
    LET by_placeholder ==
            IF placeholder # None
            THEN IF ClassDef[plugin].require_parent
                 THEN FALSE
                 ELSE IF allowed_plugins.found /\ allowed_plugins.list # <<>>
                 THEN InList(ClassDef[plugin].cname, allowed_plugins.list)
                 ELSE setting_key = "plugins"
            ELSE FALSE
    IN  IF ClassDef[plugin].page_only /\ ~include_page_only
        THEN FALSE
        ELSE by_placeholder

\* The list get_all_plugins goes on with after the loop (lines 136-137).
ChosenPlugins(name_sorted, final_plugins) ==
    IF final_plugins # <<>> THEN final_plugins ELSE name_sorted

\* get_all_plugins(placeholder, page, setting_key, include_page_only), with
\* `act` the activated translation: the state it leaves and the list it returns.
get_all_plugins(st, placeholder, page, setting_key, include_page_only, mods, act) ==
    LET st1 == discover_plugins(st, mods)
        st2 == patch_models(st1, Models)
        name_sorted == SortByName(DictValues(st2.plugins), act)
        template == IF page # None THEN get_template(page) ELSE None
        allowed_plugins == get_placeholder_conf(setting_key, placeholder, template)
        Keep(plugin) == include_plugin(plugin, placeholder, allowed_plugins,
                                       setting_key, include_page_only)
        final_plugins == SelectSeq(name_sorted, Keep)
    IN  IF st2.exc # NoExc
        THEN [st |-> st2, ret |-> <<>>]
        ELSE [st |-> st2,
              ret |-> SortByModule(ChosenPlugins(name_sorted, final_plugins), act)]

\* The loop of get_text_enabled_plugins without the test `plugin not in final`.
RECURSIVE TextEnabledRepeated(_, _)
TextEnabledRepeated(list, final) ==
    IF list = <<>>
    THEN final
    ELSE TextEnabledRepeated(Tail(list),
             IF ClassDef[Head(list)].text_enabled
             THEN Append(final, Head(list))
             ELSE final)

\* The loop of get_text_enabled_plugins (lines 146-150).
RECURSIVE TextEnabledUnique(_, _)
TextEnabledUnique(list, final) ==
    IF list = <<>>
    THEN final
    ELSE LET plugin == Head(list)
         IN  TextEnabledUnique(Tail(list),
                 IF ClassDef[plugin].text_enabled /\ ~InList(plugin, final)
                 THEN Append(final, plugin)
                 ELSE final)

\* get_text_enabled_plugins(placeholder, page)
get_text_enabled_plugins(st, placeholder, page, mods, act) ==
    LET first == get_all_plugins(st, placeholder, page, "plugins", TRUE, mods, act)
        second == get_all_plugins(first.st, placeholder, page, "text_only_plugins",
                                  TRUE, mods, act)
    IN  IF first.st.exc # NoExc
        THEN [st |-> first.st, ret |-> <<>>]
        ELSE IF second.st.exc # NoExc
        THEN [st |-> second.st, ret |-> <<>>]
        ELSE [st |-> second.st, ret |-> TextEnabledUnique(first.ret \o second.ret, <<>>)]

\* get_plugin(name)
get_plugin(st, name, mods) ==
    LET st1 == discover_plugins(st, mods)
    IN  IF st1.exc # NoExc
        THEN [st |-> st1, ret |-> <<>>]
        ELSE IF name \notin DictKeys(st1.plugins)
        THEN [st |-> [st1 EXCEPT !.exc = "KeyError"], ret |-> <<>>]
        ELSE LET st2 == set_plugin_meta(st1, ClassDef[DictGet(st1.plugins, name)].model)
             IN  IF st2.exc # NoExc
                 THEN [st |-> st2, ret |-> <<>>]
                 ELSE [st |-> st2, ret |-> <<DictGet(st2.plugins, name)>>]

\* activate(lang) after the loop instead of in a finally block: skipped when
\* the loop raises.
Reactivated_unless_raised(lang, raised) == IF raised THEN Deactivated ELSE lang

\* activate(lang) in the finally block of get_patterns (lines 176-178): the
\* translation activated when get_patterns ends, having deactivated it.
Reactivated(lang, raised) == lang

\* The first class of `list` whose instantiation raises, None if there is none.
FirstFailing(list) ==
    LET bad == {i \in 1..Len(list) : ClassDef[list[i]].init_fails}
    IN  IF bad = {} THEN None ELSE list[CHOOSE i \in bad : \A j \in bad : i <= j]

\* get_patterns(): the state it leaves, the plugins it built a URL pattern
\* for, the translation activated afterwards, and whether it deactivated it.
get_patterns(st, mods, act) ==
    LET st1 == discover_plugins(st, mods)
        lang == get_language(act)
        all == get_all_plugins(st1, None, None, "plugins", TRUE, mods, Deactivated)
    IN  IF st1.exc # NoExc
        THEN [st |-> st1, ret |-> <<>>, active |-> act, deactivated |-> FALSE]
        ELSE IF all.st.exc # NoExc
        THEN [st |-> all.st, ret |-> <<>>, active |-> Reactivated(lang, TRUE),
              deactivated |-> TRUE]
        ELSE IF FirstFailing(all.ret) # None
        THEN [st |-> [all.st EXCEPT !.exc = "PluginInitError"], ret |-> <<>>,
              active |-> Reactivated(lang, TRUE), deactivated |-> TRUE]
        ELSE [st |-> all.st, ret |-> all.ret, active |-> Reactivated(lang, FALSE),
              deactivated |-> TRUE]

-----------------------------------------------------------------------------
(* The state machine *)

\* No call is in progress: the caller has taken the outcome of the last one.
NoCall ==
    [op |-> "none", cls |-> None, placeholder |-> None, page |-> None,
     setting_key |-> "plugins", include_page_only |-> TRUE, name |-> None,
     model |-> None,
     exc |-> NoExc, ret |-> <<>>, deactivated |-> FALSE]

\* The pool's fields after an operation that left the state record st.
Becomes(st) ==
    /\ plugins' = st.plugins
    /\ discovered' = st.discovered
    /\ value' = st.value
    /\ db_table' = st.db_table
    /\ patched' = st.patched
    /\ warned' = st.warned
    /\ versioned' = st.versioned
    /\ scans' = st.scans
    /\ first_table' = st.first_table

Init ==
    /\ plugins = <<>>
    /\ discovered = FALSE
    /\ value = [k \in Classes |-> None]
    /\ db_table = DeclaredTable
    /\ patched = {}
    /\ warned = {}
    /\ versioned = {}
    /\ active = LANGUAGE_CODE
    /\ db \in Databases
    /\ scans = 0
    /\ first_table = [m \in DOMAIN ModelDef |-> <<>>]
    /\ call = NoCall

\* The placeholder and page arguments of the calls considered.
PlaceholderPages ==
    {<<None, None>>, <<"free", None>>, <<"ph", None>>, <<"ph", "pg">>, <<"odd", None>>}
SettingKeys == {"plugins", "text_only_plugins"}

\* What load('cms_plugins') would import in a call made now.  Once the scan
\* has run no call reaches load, so one value stands for every installation.
Imports == IF discovered THEN {<<>>} ELSE Installations

Register ==
    \E plugin \in Classes :
        call = NoCall /\
        \E st \in {register_plugin(Pool, plugin)} :
            /\ Becomes(st)
            /\ call' = [NoCall EXCEPT !.op = "register_plugin", !.cls = plugin,
                                      !.exc = st.exc]
            /\ UNCHANGED <<active, db>>

Unregister ==
    \E plugin \in Classes :
        call = NoCall /\
        \E st \in {unregister_plugin(Pool, plugin)} :
            /\ Becomes(st)
            /\ call' = [NoCall EXCEPT !.op = "unregister_plugin", !.cls = plugin,
                                      !.exc = st.exc]
            /\ UNCHANGED <<active, db>>

\* A direct call of discover_plugins().
DiscoverPlugins ==
    \E mods \in Imports :
        call = NoCall /\
        \E st \in {discover_plugins(Pool, mods)} :
            /\ Becomes(st)
            /\ call' = [NoCall EXCEPT !.op = "discover_plugins", !.exc = st.exc]
            /\ UNCHANGED <<active, db>>

\* A direct call of set_plugin_meta(model).
SetPluginMeta ==
    \E model \in DOMAIN ModelDef :
        call = NoCall /\
        \E st \in {set_plugin_meta(Pool, model)} :
            /\ Becomes(st)
            /\ call' = [NoCall EXCEPT !.op = "set_plugin_meta", !.model = model,
                                      !.exc = st.exc]
            /\ UNCHANGED <<active, db>>

GetAllPlugins ==
    \E pp \in PlaceholderPages, setting_key \in SettingKeys,
       include_page_only \in BOOLEAN, mods \in Imports :
        LET placeholder == pp[1]
            page == pp[2]
        IN
        call = NoCall /\
        \E r \in {get_all_plugins(Pool, placeholder, page, setting_key,
                                  include_page_only, mods, active)} :
            /\ Becomes(r.st)
            /\ call' = [NoCall EXCEPT !.op = "get_all_plugins",
                                      !.placeholder = placeholder, !.page = page,
                                      !.setting_key = setting_key,
                                      !.include_page_only = include_page_only,
                                      !.exc = r.st.exc, !.ret = r.ret]
            /\ UNCHANGED <<active, db>>

GetTextEnabledPlugins ==
    \E pp \in PlaceholderPages, mods \in Imports :
        LET placeholder == pp[1]
            page == pp[2]
        IN
        call = NoCall /\
        \E r \in {get_text_enabled_plugins(Pool, placeholder, page, mods, active)} :
            /\ Becomes(r.st)
            /\ call' = [NoCall EXCEPT !.op = "get_text_enabled_plugins",
                                      !.placeholder = placeholder, !.page = page,
                                      !.exc = r.st.exc, !.ret = r.ret]
            /\ UNCHANGED <<active, db>>

GetPlugin ==
    \E name \in ClassNames, mods \in Imports :
        call = NoCall /\
        \E r \in {get_plugin(Pool, name, mods)} :
            /\ Becomes(r.st)
            /\ call' = [NoCall EXCEPT !.op = "get_plugin", !.name = name,
                                      !.exc = r.st.exc, !.ret = r.ret]
            /\ UNCHANGED <<active, db>>

GetPatterns ==
    \E mods \in Imports :
        call = NoCall /\
        \E r \in {get_patterns(Pool, mods, active)} :
            /\ Becomes(r.st)
            /\ active' = r.active
            /\ call' = [NoCall EXCEPT !.op = "get_patterns", !.exc = r.st.exc,
                                      !.ret = r.ret, !.deactivated = r.deactivated]
            /\ UNCHANGED db

\* django.utils.translation.activate(language), by the request handling.
Activate ==
    \E language \in Languages :
        /\ call = NoCall
        /\ active' = language
        /\ call' = [NoCall EXCEPT !.op = "activate"]
        /\ UNCHANGED <<plugins, discovered, value, db_table, patched, warned,
                       versioned, db, scans, first_table>>

\* django.utils.translation.deactivate_all()
DeactivateAll ==
    /\ call = NoCall
    /\ active' = Deactivated
    /\ call' = [NoCall EXCEPT !.op = "deactivate_all"]
    /\ UNCHANGED <<plugins, discovered, value, db_table, patched, warned,
                   versioned, db, scans, first_table>>

\* The caller takes the outcome of the call; the pool is ready for the next.
Return ==
    /\ call # NoCall
    /\ call' = NoCall
    /\ UNCHANGED <<plugins, discovered, value, db_table, patched, warned,
                   versioned, active, db, scans, first_table>>

Next ==
    \/ Register
    \/ Unregister
    \/ DiscoverPlugins
    \/ SetPluginMeta
    \/ GetAllPlugins
    \/ GetTextEnabledPlugins
    \/ GetPlugin
    \/ GetPatterns
    \/ Activate
    \/ DeactivateAll
    \/ Return

Spec == Init /\ [][Next]_vars

-----------------------------------------------------------------------------
(* Properties *)

\* A step in which the pool takes the call `op`.
Calls(op) == call = NoCall /\ call'.op = op

Succeeded(op) == call.op = op /\ call.exc = NoExc

NoDuplicateKeys == \A i, j \in 1..Len(plugins) : plugins[i].key = plugins[j].key => i = j

\* The entries of the registry as a set of <<key, class>> pairs.
Entries(d) == {<<d[i].key, d[i].cls>> : i \in 1..Len(d)}

\* C1: register_plugin with a plugin class (a CMSPluginBase subclass) whose
\* class name is already a key of the registry, the same class again or
\* another class of that name, raises PluginAlreadyRegistered and leaves the
\* registry as it was; no name is ever a key of the registry twice.
C1_DuplicateNameRejected ==
    /\ []NoDuplicateKeys
    /\ [][(/\ Calls("register_plugin")
           /\ ClassDef[call'.cls].base
           /\ ClassDef[call'.cls].cname \in DictKeys(plugins))
          => (/\ call'.exc = "PluginAlreadyRegistered"
              /\ plugins' = plugins)]_vars

\* A registration was refused because another class holds the name.
C1_Witness ==
    /\ call.op = "register_plugin"
    /\ call.exc = "PluginAlreadyRegistered"
    /\ ClassDef[call.cls].cname \in DictKeys(plugins)
    /\ DictGet(plugins, ClassDef[call.cls].cname) # call.cls

\* C2: unregister_plugin raises PluginNotRegistered and changes nothing when
\* the class name is no key of the registry; otherwise it removes the entry
\* of that name and only that, and in both cases leaves `discovered` alone.
C2_UnregisterRemovesOne ==
    [][Calls("unregister_plugin") =>
        LET n == ClassDef[call'.cls].cname
        IN  /\ discovered' = discovered
            /\ IF n \notin DictKeys(plugins)
               THEN call'.exc = "PluginNotRegistered" /\ plugins' = plugins
               ELSE /\ call'.exc = NoExc
                    /\ Len(plugins') = Len(plugins) - 1
                    /\ Entries(plugins') = {e \in Entries(plugins) : e[1] # n}]_vars

\* An entry was removed from a registry that keeps others.
C2_Witness ==
    /\ Succeeded("unregister_plugin")
    /\ Len(plugins) >= 1
    /\ ClassDef[call.cls].cname \notin DictKeys(plugins)

\* C3: a list get_all_plugins returns for include_page_only=False holds no
\* plugin whose page_only flag is true.
C3_NoPageOnlyPlugins ==
    (Succeeded("get_all_plugins") /\ ~call.include_page_only)
        => \A i \in 1..Len(call.ret) : ~ClassDef[call.ret[i]].page_only

\* The allow-list get_all_plugins looked up for the call.
AllowList == get_placeholder_conf(call.setting_key, call.placeholder,
                                  get_template(call.page))

\* What C4 says of a returned plugin: no parent required, and named in the
\* allow-list, or no allow-list and the default setting key.
Admissible(plugin) ==
    /\ ~ClassDef[plugin].require_parent
    /\ \/ InList(ClassDef[plugin].cname, AllowList.list)
       \/ AllowList.list = <<>> /\ call.setting_key = "plugins"

\* C4, for the calls that name a placeholder: every plugin get_all_plugins
\* returns is admissible.  (Without a placeholder nothing is filtered and the
\* full list is what get_patterns asks for.)
C4_OnlyAdmissiblePlugins ==
    (Succeeded("get_all_plugins") /\ call.placeholder # None)
        => \A i \in 1..Len(call.ret) : Admissible(call.ret[i])

NameKey(plugin) == force_unicode(ClassDef[plugin].name, active)
ModuleKey(plugin) == force_unicode(ClassDef[plugin].module, active)

\* C5: the list get_all_plugins returns ascends by module name, and plugins of
\* one module ascend by display name.
C5_SortedByModuleThenName ==
    Succeeded("get_all_plugins")
        => \A i, j \in 1..Len(call.ret) :
               i < j => /\ StrLeq(ModuleKey(call.ret[i]), ModuleKey(call.ret[j]))
                        /\ ModuleKey(call.ret[i]) = ModuleKey(call.ret[j])
                               => StrLeq(NameKey(call.ret[i]), NameKey(call.ret[j]))

\* A returned list in which two plugins of one module are ordered by name and
\* the order by module overrides the order by name.
C5_Witness ==
    /\ Succeeded("get_all_plugins")
    /\ \E i, j \in 1..Len(call.ret) :
           /\ i < j
           /\ ModuleKey(call.ret[i]) = ModuleKey(call.ret[j])
           /\ StrLess(NameKey(call.ret[i]), NameKey(call.ret[j]))
    /\ \E i, j \in 1..Len(call.ret) :
           i < j /\ StrLess(NameKey(call.ret[j]), NameKey(call.ret[i]))

\* The two lists get_text_enabled_plugins concatenates, once it has returned.
TwoPasses ==
    get_all_plugins(Pool, call.placeholder, call.page, "plugins", TRUE, <<>>, active).ret
        \o get_all_plugins(Pool, call.placeholder, call.page, "text_only_plugins",
                           TRUE, <<>>, active).ret

FirstAt(list, x) == CHOOSE i \in 1..Len(list) : list[i] = x /\ \A j \in 1..(i - 1) : list[j] # x

\* C6: the list get_text_enabled_plugins returns holds no plugin twice, holds
\* the text-enabled plugins of the two passes and no others, in the order of
\* their first occurrence in the concatenation of the two passes.
C6_TextEnabledUniqueInOrder ==
    Succeeded("get_text_enabled_plugins")
        => /\ \A i, j \in 1..Len(call.ret) : call.ret[i] = call.ret[j] => i = j
           /\ {call.ret[i] : i \in 1..Len(call.ret)}
                  = {TwoPasses[i] : i \in {n \in 1..Len(TwoPasses) :
                                               ClassDef[TwoPasses[n]].text_enabled}}
           /\ \A i, j \in 1..Len(call.ret) :
                  i < j => FirstAt(TwoPasses, call.ret[i]) < FirstAt(TwoPasses, call.ret[j])

\* Two text-enabled plugins returned once each though both passes list them,
\* with a plugin that is not text-enabled left out.
C6_Witness ==
    /\ Succeeded("get_text_enabled_plugins")
    /\ Len(call.ret) >= 2
    /\ Len(TwoPasses) > 2 * Len(call.ret)
    /\ \E i, j \in 1..Len(TwoPasses) : i < j /\ TwoPasses[i] = TwoPasses[j]
                                        /\ ClassDef[TwoPasses[i]].text_enabled

\* The operations that start with discover_plugins().
Discovering == {"discover_plugins", "get_all_plugins", "get_text_enabled_plugins",
                "get_plugin", "get_patterns"}

\* C7: load('cms_plugins') runs at most once: never in register_plugin or
\* unregister_plugin, in the first call that discovers, and never again, also
\* when the scan raised or re-entered the pool; `discovered` never goes back
\* to false.
C7_ScanAtMostOnce ==
    /\ [](scans <= 1 /\ (discovered <=> scans = 1))
    /\ [][/\ discovered => discovered' /\ scans' = scans
          /\ (Calls("register_plugin") \/ Calls("unregister_plugin"))
                 => scans' = scans /\ discovered' = discovered
          /\ (call = NoCall /\ call'.op \in Discovering /\ ~discovered)
                 => scans' = 1 /\ discovered']_vars

\* A discovering call ended with the exception of a registration made by the
\* scan, which ran once.
C7_Witness ==
    /\ call.op \in Discovering
    /\ call.exc = "PluginAlreadyRegistered"
    /\ discovered
    /\ scans = 1

\* C8: when get_patterns has deactivated the translation, the language that
\* get_language() gave when it was called is the activated one when it ends,
\* whether it returns the patterns or raises.
C8_LocaleRestored ==
    [][(Calls("get_patterns") /\ call'.deactivated)
          => active' = get_language(active)]_vars

\* get_patterns raised after deactivating French, and French is activated.
C8_Witness ==
    /\ call.op = "get_patterns"
    /\ call.deactivated
    /\ call.exc \in {"PluginInitError", "DatabaseError"}
    /\ active = "fr"

\* C9: register_plugin with a class that is no CMSPluginBase subclass raises
\* ImproperlyConfigured with the registry and every value attribute untouched;
\* a successful register_plugin adds one entry, under the class name, for the
\* class, stamps the class's value attribute with that name, and changes no
\* other entry and no other class's value.
C9_RegisterChecksThenAdds ==
    [][Calls("register_plugin") =>
        LET k == call'.cls
            n == ClassDef[k].cname
        IN  /\ ~ClassDef[k].base
                => call'.exc = "ImproperlyConfigured" /\ plugins' = plugins /\ value' = value
            /\ call'.exc = NoExc
                => /\ ClassDef[k].base
                   /\ n \notin DictKeys(plugins)
                   /\ Len(plugins') = Len(plugins) + 1
                   /\ Entries(plugins') = Entries(plugins) \cup {<<n, k>>}
                   /\ value'[k] = n
                   /\ \A o \in Classes \ {k} : value'[o] = value[o]]_vars

\* A class that is no plugin was refused while its name is free and its value
\* unstamped, and a registered class carries its name as value.
C9_Witness ==
    /\ call.op = "register_plugin"
    /\ call.exc = "ImproperlyConfigured"
    /\ ClassDef[call.cls].cname \notin DictKeys(plugins)
    /\ value[call.cls] = None
    /\ \E i \in 1..Len(plugins) : value[plugins[i].cls] = plugins[i].key

\* C10: the table name of a non-abstract model stays what the first call of
\* set_plugin_meta on the model left it, whatever calls follow and however
\* they end.
C10_TableNameSettledByFirstCall ==
    \A m \in DOMAIN ModelDef :
        (~ModelDef[m].abstract /\ first_table[m] # <<>>) => db_table[m] = first_table[m]

=============================================================================
